---- MODULE Spec2Model ----
(***************************************************************************)
(* Model of the dwv session core:                                          *)
(*   - ToolboxController (src/unnamed/part_000): tool registry, tool       *)
(*     selection, surface binding and input dispatch;                      *)
(*   - DataController (src/src/index.js): the indexed {image, meta} store. *)
(* Every public method is one action.  The external calls a method makes   *)
(* (tool.activate, layer.addEventListener, ...) are applied in the order   *)
(* of the code and are also recorded, in that order, in lastCall.calls.    *)
(***************************************************************************)
EXTENDS Integers, Sequences, FiniteSets, TLC

VARIABLES
  toolList,       \* #toolList: tool name -> set of event kinds the tool handles
  selectedTool,   \* #selectedTool: a tool name, or Null
  active,         \* per tool: the flag set by tool.activate(bool)
  callbackStore,  \* #callbackStore: <<layerId, eventType>> -> callback
  cbCreated,      \* number of dispatcher closures allocated so far
  boundLayers,    \* #boundLayers: group id -> layer
  interaction,    \* per layer: bindInteraction() / unbindInteraction() state
  listeners,      \* per layer and event kind: registered callbacks, in order
  ctxMenu,        \* per layer element: registered 'contextmenu' closures
  closures,       \* number of 'contextmenu' arrow functions allocated so far
  windowKeydown,  \* 'keydown' capture listeners registered on window
  data,           \* #data: id -> [image, meta]
  imgListeners,   \* per image: 'imagechange' listeners (the dataid each closes over)
  slices,         \* per image: images appended with appendSlice, in order
  observers,      \* #listenerHandler: event type -> registered observer callbacks
  lastCall        \* history: the last method call, its outcome and its external calls

toolVars == <<toolList, selectedTool, active, callbackStore, cbCreated, boundLayers,
              interaction, listeners, ctxMenu, closures, windowKeydown>>
dataVars == <<data, imgListeners, slices, observers>>
vars == <<toolVars, dataVars, lastCall>>

----------------------------------------------------------------------------
(* Values *)

Null == "null"
Undefined == "undefined"

\* bound on the number of 'contextmenu' arrow functions allocated
MaxClosures == 5

\* bound on the number of move events of a pointer gesture
MaxMoves == 1

ToolNames == {"Scroll", "Draw", "WindowLevel"}
AlternateTool == "WindowLevel"

InteractionEventNames ==
  <<"mousedown", "mousemove", "mouseup", "mouseout", "wheel", "dblclick",
    "touchstart", "touchmove", "touchend">>

EventKinds == {InteractionEventNames[i] : i \in 1..Len(InteractionEventNames)}

\* the handler sets a tool object of each name may declare
HandlerSets(name) ==
  IF name = "Scroll" THEN { {"mousedown", "mousemove", "mouseup", "touchend", "keydown"} }
  ELSE IF name = "Draw" THEN { {"mousedown", "mouseup", "wheel"} }
  ELSE { {"mousedown", "mousemove", "mouseup", "touchend", "keydown"}, {"mouseup", "wheel"} }

Layers == {"L1", "L2"}
Groups == {"g1", "g2"}

\* mouse button / buttons values carried by an event
ButtonValues == {0, 2}
ButtonsValues == {0, 1, 2}

NoEvent == [type |-> "none", button |-> 0, buttons |-> 0]

Call(op, args, threw, calls, pre, ev) ==
  [op |-> op, args |-> args, threw |-> threw, calls |-> calls, pre |-> pre, event |-> ev]

----------------------------------------------------------------------------
(* ToolboxController: registry and selection *)

getToolList == toolList

hasTool(name) == name \in DOMAIN getToolList

getSelectedTool == selectedTool

\* tool.activate(flag) / the assignment of #selectedTool, applied in call order
RECURSIVE ApplyToolCalls(_, _)
ApplyToolCalls(act, calls) ==
  IF calls = <<>> THEN act
  ELSE LET c == Head(calls)
           next == IF c[1] = "activate"
                   THEN [act EXCEPT ![c[2]] = (c[3] = "true")]
                   ELSE act
       IN ApplyToolCalls(next, Tail(calls))

ActiveTools(act) == {t \in DOMAIN act : act[t]}

\* faulty variant: the previous tool is not de-activated
SetSelectedCallsNoDeactivate(sel, name) ==
  <<<<"select", name>>, <<"activate", name, "true">>>>

\* faulty variant: the new tool is activated before the previous one is de-activated
SetSelectedCallsActivateFirst(sel, name) ==
  <<<<"select", name>>, <<"activate", name, "true">>>>
    \o (IF sel # Null /\ sel # name THEN <<<<"activate", sel, "false">>>> ELSE <<>>)

\* the body of setSelectedTool after the registry check
SetSelectedCalls(sel, name) ==
  (IF sel # Null THEN <<<<"activate", sel, "false">>>> ELSE <<>>)
    \o <<<<"select", name>>, <<"activate", name, "true">>>>

\* faulty variant: the registry check is missing
SetSelectedThrowsNever(name) == FALSE

SetSelectedThrows(name) == ~hasTool(name)

setSelectedTool(name) ==
  /\ IF SetSelectedThrows(name)
     THEN /\ lastCall' = Call("setSelectedTool", <<name>>, TRUE, <<>>, selectedTool, NoEvent)
          /\ UNCHANGED <<selectedTool, active>>
     ELSE LET calls == SetSelectedCalls(selectedTool, name)
          IN /\ selectedTool' = name
             /\ active' = ApplyToolCalls(active, calls)
             /\ lastCall' = Call("setSelectedTool", <<name>>, FALSE, calls, selectedTool, NoEvent)
  /\ UNCHANGED <<toolList, callbackStore, cbCreated, boundLayers, interaction, listeners,
                 ctxMenu, closures, windowKeydown>>
  /\ UNCHANGED dataVars


\* the value of this.getSelectedTool()[eventType]: <<>> stands for undefined
HandlerOf(tool, eventType) ==
  IF eventType \in toolList[tool] THEN <<tool, eventType>> ELSE <<>>

\* getSelectedToolEventHandler reads a property of #selectedTool, which is
\* null until the first successful setSelectedTool: that read throws
SelectedToolEventHandler(eventType) ==
  IF getSelectedTool = Null
  THEN [threw |-> TRUE, handler |-> <<>>]
  ELSE [threw |-> FALSE, handler |-> HandlerOf(getSelectedTool, eventType)]

getSelectedToolEventHandler(eventType) ==
  /\ LET r == SelectedToolEventHandler(eventType)
     IN lastCall' = Call("getSelectedToolEventHandler", <<eventType>>, r.threw,
                         IF r.threw THEN <<>> ELSE <<<<"return">> \o r.handler>>,
                         selectedTool, NoEvent)
  /\ UNCHANGED toolVars
  /\ UNCHANGED dataVars

setToolFeatures ==
  /\ lastCall' = Call("setToolFeatures", <<>>, FALSE,
                      IF getSelectedTool # Null
                      THEN <<<<"setFeatures", getSelectedTool>>>> ELSE <<>>,
                      selectedTool, NoEvent)
  /\ UNCHANGED toolVars
  /\ UNCHANGED dataVars

----------------------------------------------------------------------------
(* ToolboxController: dispatcher cache *)

\* faulty variant: no lookup in the cache, a callback is allocated and stored
\* on every request
getOnMouchAlwaysNew(st, layerId, eventType) ==
  [store |-> (<<layerId, eventType>> :> <<layerId, eventType, st.created>>) @@ st.store,
   created |-> st.created + 1]

\* #getOnMouch(layerId, eventType) on the cache st = [store, created]: the
\* callback is allocated on the first request and stored; the callback
\* returned is the store's entry for the pair afterwards
getOnMouch(st, layerId, eventType) ==
  IF <<layerId, eventType>> \in DOMAIN st.store
  THEN st
  ELSE [store |-> st.store @@ (<<layerId, eventType>> :> <<layerId, eventType, st.created>>),
        created |-> st.created + 1]

CallbackOf(st, layerId, eventType) == st.store[<<layerId, eventType>>]

----------------------------------------------------------------------------
(* RenderSurface and DOM collaborators *)

\* layer.getId()
LayerId(layer) == layer

\* layer.addEventListener(kind, cb)
LayerAddListener(seq, cb) == Append(seq, cb)

\* layer.removeEventListener(kind, cb)
LayerRemoveListener(seq, cb) == SelectSeq(seq, LAMBDA x : x # cb)

\* element.addEventListener('contextmenu', f): f is a new arrow function
DomAddListener(set, f) == set \cup {f}

\* element.removeEventListener('contextmenu', f): removes f if registered
DomRemoveListener(set, f) == set \ {f}

----------------------------------------------------------------------------
(* ToolboxController: binding.  A world w is the part of the state a bind   *)
(* touches: [int, lst, st, ctx, clo, calls].                                *)

World ==
  [int |-> interaction, lst |-> listeners,
   st |-> [store |-> callbackStore, created |-> cbCreated],
   ctx |-> ctxMenu, clo |-> closures, calls |-> <<>>]

\* faulty variant: the unbind loop removes no listener
RECURSIVE UnbindListenersNone(_, _, _)
UnbindListenersNone(w, layer, i) == w

\* the for loop of #unbindLayer, from index i
RECURSIVE UnbindListeners(_, _, _)
UnbindListeners(w, layer, i) ==
  IF i > Len(InteractionEventNames) THEN w
  ELSE LET name == InteractionEventNames[i]
           st1 == getOnMouch(w.st, LayerId(layer), name)
           cb == CallbackOf(st1, LayerId(layer), name)
       IN UnbindListeners(
            [w EXCEPT !.st = st1,
                      !.lst[layer][name] = LayerRemoveListener(@, cb),
                      !.calls = Append(@, <<"removeEventListener", layer, name>>)],
            layer, i + 1)

\* the 'contextmenu' line of #unbindLayer: the function passed to
\* removeEventListener is a newly allocated arrow function
UnbindContextMenu(w, layer) ==
  [w EXCEPT !.ctx[LayerId(layer)] = DomRemoveListener(@, w.clo),
            !.clo = @ + 1,
            !.calls = Append(@, <<"removeContextMenuListener", layer>>)]

unbindLayer(w, layer) ==
  LET w1 == [w EXCEPT !.int[layer] = FALSE,
                      !.calls = Append(@, <<"unbindInteraction", layer>>)]
  IN UnbindContextMenu(UnbindListeners(w1, layer, 1), layer)

\* the for loop of bindLayer, from index i
RECURSIVE BindListeners(_, _, _)
BindListeners(w, layer, i) ==
  IF i > Len(InteractionEventNames) THEN w
  ELSE LET name == InteractionEventNames[i]
           st1 == getOnMouch(w.st, LayerId(layer), name)
           cb == CallbackOf(st1, LayerId(layer), name)
       IN BindListeners(
            [w EXCEPT !.st = st1,
                      !.lst[layer][name] = LayerAddListener(@, cb),
                      !.calls = Append(@, <<"addEventListener", layer, name>>)],
            layer, i + 1)

BindContextMenu(w, layer) ==
  [w EXCEPT !.ctx[LayerId(layer)] = DomAddListener(@, w.clo),
            !.clo = @ + 1,
            !.calls = Append(@, <<"addContextMenuListener", layer>>)]

\* faulty variant: the previously bound layer is never unbound
HasBoundLayerNever(group) == FALSE

HasBoundLayer(group) == group \in DOMAIN boundLayers

BoundLayersAfter(layer, group) ==
  (group :> layer) @@ boundLayers

bindLayer(layer, group) ==
  /\ closures + 2 <= MaxClosures
  /\ LET w0 == IF HasBoundLayer(group) THEN unbindLayer(World, boundLayers[group]) ELSE World
         w1 == [w0 EXCEPT !.int[layer] = TRUE,
                          !.calls = Append(@, <<"bindInteraction", layer>>)]
         w == BindContextMenu(BindListeners(w1, layer, 1), layer)
     IN /\ interaction' = w.int
        /\ listeners' = w.lst
        /\ callbackStore' = w.st.store
        /\ cbCreated' = w.st.created
        /\ ctxMenu' = w.ctx
        /\ closures' = w.clo
        /\ boundLayers' = BoundLayersAfter(layer, group)
        /\ lastCall' = Call("bindLayer", <<layer, group>>, FALSE, w.calls,
                            IF HasBoundLayer(group) THEN boundLayers[group] ELSE Undefined,
                            NoEvent)
  /\ UNCHANGED <<toolList, selectedTool, active, windowKeydown>>
  /\ UNCHANGED dataVars


----------------------------------------------------------------------------
(* ToolboxController: dispatch *)

\* the events a host delivers: only mouse events carry button states
Events ==
  [type : {"mousedown", "mousemove", "mouseup"}, button : ButtonValues, buttons : ButtonsValues]
    \cup [type : EventKinds \ {"mousedown", "mousemove", "mouseup"}, button : {0}, buttons : {0}]

KeydownEvent == [type |-> "keydown", button |-> 0, buttons |-> 0]

Quiet == [calls |-> <<>>, threw |-> FALSE]
Thrown == [calls |-> <<>>, threw |-> TRUE]

\* func = tool[event.type]; if (func) func(event)
InvokeHandler(tool, ev) ==
  IF ev.type \in toolList[tool]
  THEN [calls |-> <<<<"handler", tool, ev.type>>>>, threw |-> FALSE]
  ELSE Quiet

\* applySelectedTool(event, selectedTool = undefined); reading a property of
\* this.#toolList[forced] throws when forced is not registered
applySelectedTool(ev, forced) ==
  IF selectedTool = Null THEN Quiet
  ELSE IF forced = Undefined THEN InvokeHandler(selectedTool, ev)
  ELSE IF forced \notin DOMAIN toolList THEN Thrown
  ELSE InvokeHandler(forced, ev)

IsOverride(ev) ==
  \/ ev.type = "mousedown" /\ ev.button = 2
  \/ ev.type = "mousemove" /\ ev.buttons = 2

\* faulty variant: the button test is missing, every mouse or touch event is
\* passed on with the alternate tool forced
RunCallbackAlwaysAlternate(cb, ev) ==
  IF cb[2] \in {"keydown", "touchend"}
  THEN applySelectedTool(ev, Undefined)
  ELSE LET r == applySelectedTool(ev, AlternateTool)
       IN [r EXCEPT !.calls = <<<<"augmentEventOffsets", cb[1], ev.type>>>> \o @]

\* the callback #getOnMouch built for cb = <<layerId, eventType, serial>>
RunCallback(cb, ev) ==
  IF cb[2] \in {"keydown", "touchend"}
  THEN applySelectedTool(ev, Undefined)
  ELSE LET r == IF IsOverride(ev)
                THEN applySelectedTool(ev, AlternateTool)
                ELSE applySelectedTool(ev, Undefined)
       IN [r EXCEPT !.calls = <<<<"augmentEventOffsets", cb[1], ev.type>>>> \o @]

\* the listeners of one event kind are called in registration order; an
\* exception ends the delivery
RECURSIVE Fire(_, _)
Fire(cbs, ev) ==
  IF cbs = <<>> THEN Quiet
  ELSE LET r == RunCallback(Head(cbs), ev)
       IN IF r.threw THEN r
          ELSE LET rest == Fire(Tail(cbs), ev)
               IN [calls |-> r.calls \o rest.calls, threw |-> rest.threw]

HandlerCalls(calls) == SelectSeq(calls, LAMBDA c : c[1] = "handler")

\* an input event of a bound surface reaches the listeners of its kind
DeliverEvent(layer, ev) ==
  /\ interaction[layer]
  /\ LET r == Fire(listeners[layer][ev.type], ev)
     IN lastCall' = Call("dispatch", <<layer>>, r.threw, r.calls, selectedTool, ev)
  /\ UNCHANGED toolVars
  /\ UNCHANGED dataVars

\* the events of one pointer gesture made with a button: press, moves with
\* the button held, release
GestureEvents(button, moves) ==
  LET held == IF button = 2 THEN 2 ELSE 1
  IN <<[type |-> "mousedown", button |-> button, buttons |-> held]>>
       \o [i \in 1..moves |-> [type |-> "mousemove", button |-> 0, buttons |-> held]]
       \o <<[type |-> "mouseup", button |-> button, buttons |-> 0]>>

\* each event of a sequence is delivered to the listeners of its kind; an
\* exception in one delivery does not stop the following events
RECURSIVE DeliverAll(_, _)
DeliverAll(layer, evs) ==
  IF evs = <<>> THEN Quiet
  ELSE LET r == Fire(listeners[layer][Head(evs).type], Head(evs))
           rest == DeliverAll(layer, Tail(evs))
       IN [calls |-> r.calls \o rest.calls, threw |-> r.threw \/ rest.threw]

\* a pointer gesture on a bound surface, no other call in between
PointerGesture(layer, button, moves) ==
  /\ interaction[layer]
  /\ LET evs == GestureEvents(button, moves)
         r == DeliverAll(layer, evs)
     IN lastCall' = Call("gesture", <<layer, button, moves>>, r.threw, r.calls,
                         selectedTool, Head(evs))
  /\ UNCHANGED toolVars
  /\ UNCHANGED dataVars

RECURSIVE SetToSeq(_)
SetToSeq(S) ==
  IF S = {} THEN <<>>
  ELSE LET x == CHOOSE y \in S : TRUE IN <<x>> \o SetToSeq(S \ {x})

\* a key press reaches the capture listeners of window
DeliverKeydown ==
  /\ windowKeydown # {}
  /\ LET r == Fire(SetToSeq(windowKeydown), KeydownEvent)
     IN lastCall' = Call("dispatch", <<"window">>, r.threw, r.calls, selectedTool, KeydownEvent)
  /\ UNCHANGED toolVars
  /\ UNCHANGED dataVars

\* init(): tool.init() on every tool, then the window keydown listener
init ==
  /\ LET st == getOnMouch([store |-> callbackStore, created |-> cbCreated], "window", "keydown")
         tools == SetToSeq(DOMAIN toolList)
     IN /\ callbackStore' = st.store
        /\ cbCreated' = st.created
        /\ windowKeydown' = DomAddListener(windowKeydown, CallbackOf(st, "window", "keydown"))
        /\ lastCall' = Call("init", <<>>, FALSE,
                            [i \in 1..Len(tools) |-> <<"init", tools[i]>>]
                              \o <<<<"addEventListener", "window", "keydown">>>>,
                            selectedTool, NoEvent)
  /\ UNCHANGED <<toolList, selectedTool, active, boundLayers, interaction, listeners,
                 ctxMenu, closures>>
  /\ UNCHANGED dataVars


----------------------------------------------------------------------------
(* DataController *)

\* bound on the 'imagechange' subscriptions held by all images together
MaxSubs == 2
\* bound on the number of slices of one image
MaxSlices == 2
\* bound on the observers registered on the store
MaxObservers == 1

Ids == {0, 1}
Images == {"img1", "img2"}
ObserverTypes == {"imageset", "imagechange"}
ObserverCallbacks == {"obs"}

\* raw meta data: DICOM elements keyed by tag (x00020010 is the transfer
\* syntax, x00200013 the instance number), or a plain object of a DOM image
RawMetas ==
  { ("x00020010" :> "1.2.840") @@ ("x00200013" :> "1"),
    ("imageUid" :> "u1") }

TagName(tag) ==
  IF tag = "x00020010" THEN "TransferSyntaxUID"
  ELSE IF tag = "x00200013" THEN "InstanceNumber"
  ELSE tag

\* new DicomElementsWrapper(meta).dumpToObject(): elements keyed by tag name
dumpToObject(meta) ==
  [name \in {TagName(t) : t \in DOMAIN meta} |->
     meta[CHOOSE t \in DOMAIN meta : TagName(t) = name]]

IsDicom(meta) == "x00020010" \in DOMAIN meta

getMetaObject(meta) == IF IsDicom(meta) THEN dumpToObject(meta) ELSE meta

\* mergeObjects(obj1, obj2, idKey, 'value'): fields of both, new value wins
mergeObjects(obj1, obj2, idKey) == obj2 @@ obj1

length == Cardinality(DOMAIN data)

get(index) == IF index \in DOMAIN data THEN <<data[index]>> ELSE <<>>

TotalSubs == Len(imgListeners["img1"]) + Len(imgListeners["img2"])

\* #fireEvent(event): every observer of the event type, in registration order
FireToObservers(obs, type, payload) ==
  [i \in 1..Len(obs[type]) |-> <<"observer", obs[type][i], type>> \o payload]

\* faulty variant: the index check is missing, the entry is overwritten
AddNewThrowsNever(index) == FALSE

AddNewThrows(index) == index \in DOMAIN data

addNew(index, image, meta) ==
  /\ AddNewThrows(index) \/ TotalSubs < MaxSubs
  /\ IF AddNewThrows(index)
     THEN /\ lastCall' = Call("addNew", <<index, image>>, TRUE, <<>>, Undefined, NoEvent)
          /\ UNCHANGED dataVars
     ELSE /\ data' = (index :> [image |-> image, meta |-> getMetaObject(meta)]) @@ data
          /\ imgListeners' = [imgListeners EXCEPT ![image] = Append(@, index)]
          /\ lastCall' = Call("addNew", <<index, image>>, FALSE,
                              <<<<"addEventListener", image, index>>>>, Undefined, NoEvent)
          /\ UNCHANGED <<slices, observers>>
  /\ UNCHANGED toolVars

\* faulty variant: the 'imageset' event is fired before the image is replaced
StoreAtImageSetBefore(index, image) == data

\* the store at the time setImage fires 'imageset': the image is already replaced
StoreAtImageSet(index, image) == [data EXCEPT ![index].image = image]

\* faulty variant: a missing entry is created instead of failing
setImageUpsert(index, image) ==
  /\ TotalSubs < MaxSubs
  /\ data' = (index :> [image |-> image, meta |-> <<>>]) @@ data
  /\ imgListeners' = [imgListeners EXCEPT ![image] = Append(@, index)]
  /\ lastCall' = Call("setImage", <<index, image>>, FALSE,
                      FireToObservers(observers, "imageset", <<image, index, image>>)
                        \o <<<<"addEventListener", image, index>>>>,
                      Undefined, NoEvent)
  /\ UNCHANGED <<slices, observers>>
  /\ UNCHANGED toolVars

\* this.#data[index].image = image throws when the entry is undefined
setImage(index, image) ==
  /\ index \notin DOMAIN data \/ TotalSubs < MaxSubs
  /\ IF index \notin DOMAIN data
     THEN /\ lastCall' = Call("setImage", <<index, image>>, TRUE, <<>>, Undefined, NoEvent)
          /\ UNCHANGED dataVars
     ELSE LET seen == StoreAtImageSet(index, image)
          IN /\ data' = [data EXCEPT ![index].image = image]
             /\ imgListeners' = [imgListeners EXCEPT ![image] = Append(@, index)]
             /\ lastCall' = Call("setImage", <<index, image>>, FALSE,
                                 FireToObservers(observers, "imageset",
                                                 <<image, index, seen[index].image>>)
                                   \o <<<<"addEventListener", image, index>>>>,
                                 data[index].image, NoEvent)
             /\ UNCHANGED <<slices, observers>>
  /\ UNCHANGED toolVars

\* faulty variant: the id key follows the shape of the stored meta data
UpdateIdKeyFromStored(stored, meta) ==
  IF "TransferSyntaxUID" \in DOMAIN stored THEN "InstanceNumber" ELSE "imageUid"

\* the id key update passes to mergeObjects
UpdateIdKey(stored, meta) ==
  IF IsDicom(meta) THEN "InstanceNumber" ELSE "imageUid"

\* dataToUpdate.image throws when the entry is undefined
update(index, image, meta) ==
  /\ IF index \notin DOMAIN data
     THEN /\ lastCall' = Call("update", <<index, image, meta>>, TRUE, <<>>, Undefined, NoEvent)
          /\ UNCHANGED dataVars
     ELSE LET target == data[index].image
              idKey == UpdateIdKey(data[index].meta, meta)
          IN /\ slices[target] < MaxSlices
             /\ slices' = [slices EXCEPT ![target] = @ + 1]
             /\ data' = [data EXCEPT ![index].meta =
                           mergeObjects(@, getMetaObject(meta), idKey)]
             /\ lastCall' = Call("update", <<index, image, meta>>, FALSE,
                                 <<<<"appendSlice", target, image>>,
                                   <<"mergeObjects", idKey>>>>, target, NoEvent)
             /\ UNCHANGED <<imgListeners, observers>>
  /\ UNCHANGED toolVars

\* faulty variant: the entries are kept
ResetDataKeepsEntries == data

\* the store reset() assigns: this.#data = []
ResetData == <<>>

reset ==
  /\ data' = ResetData
  /\ lastCall' = Call("reset", <<>>, FALSE, <<>>, Undefined, NoEvent)
  /\ UNCHANGED <<imgListeners, slices, observers>>
  /\ UNCHANGED toolVars

GetEntry(index) ==
  /\ lastCall' = Call("get", <<index>>, FALSE, <<<<"return">> \o get(index)>>,
                      Undefined, NoEvent)
  /\ UNCHANGED dataVars
  /\ UNCHANGED toolVars

addEventListener(type, callback) ==
  /\ Len(observers[type]) < MaxObservers
  /\ observers' = [observers EXCEPT ![type] = Append(@, callback)]
  /\ lastCall' = Call("addEventListener", <<type, callback>>, FALSE, <<>>, Undefined, NoEvent)
  /\ UNCHANGED <<data, imgListeners, slices>>
  /\ UNCHANGED toolVars

removeEventListener(type, callback) ==
  /\ observers' = [observers EXCEPT ![type] = SelectSeq(@, LAMBDA c : c # callback)]
  /\ lastCall' = Call("removeEventListener", <<type, callback>>, FALSE, <<>>, Undefined, NoEvent)
  /\ UNCHANGED <<data, imgListeners, slices>>
  /\ UNCHANGED toolVars

\* the functions #getFireEvent(index) returned, called in registration order:
\* each sets event.dataid = index and fires the event to the observers
RECURSIVE Forward(_, _)
Forward(subs, image) ==
  IF subs = <<>> THEN <<>>
  ELSE FireToObservers(observers, "imagechange", <<image, Head(subs)>>)
         \o Forward(Tail(subs), image)

\* an image emits 'imagechange'
ImageChange(image) ==
  /\ lastCall' = Call("imagechange", <<image>>, FALSE,
                      Forward(imgListeners[image], image), Undefined, NoEvent)
  /\ UNCHANGED dataVars
  /\ UNCHANGED toolVars

----------------------------------------------------------------------------
(* Specifications *)

Registries ==
  UNION { {f \in [S -> UNION {HandlerSets(t) : t \in ToolNames}] :
             \A t \in S : f[t] \in HandlerSets(t)} : S \in SUBSET ToolNames }

\* a ToolboxController constructed with one of the given tool lists
ToolboxInit(registries) ==
  /\ toolList \in registries
  /\ selectedTool = Null
  /\ active = [t \in ToolNames |-> FALSE]
  /\ callbackStore = <<>>
  /\ cbCreated = 0
  /\ boundLayers = <<>>
  /\ interaction = [l \in Layers |-> FALSE]
  /\ listeners = [l \in Layers |-> [k \in EventKinds |-> <<>>]]
  /\ ctxMenu = [l \in Layers |-> {}]
  /\ closures = 0
  /\ windowKeydown = {}

\* a new DataController; every image starts as one slice without listeners
DataInit ==
  /\ data = <<>>
  /\ imgListeners = [i \in Images |-> <<>>]
  /\ slices = [i \in Images |-> 1]
  /\ observers = [t \in ObserverTypes |-> <<>>]

Init ==
  /\ ToolboxInit(Registries)
  /\ DataInit
  /\ lastCall = Call("new", <<>>, FALSE, <<>>, Undefined, NoEvent)

\* the store next to a toolbox without tools
InitStore ==
  /\ ToolboxInit({<<>>})
  /\ DataInit
  /\ lastCall = Call("new", <<>>, FALSE, <<>>, Undefined, NoEvent)

\* the registry and the selection
NextSelect ==
  \/ \E name \in ToolNames : setSelectedTool(name)
  \/ \E k \in EventKinds \cup {"keydown"} : getSelectedToolEventHandler(k)
  \/ setToolFeatures

\* the surface binder
NextBind ==
  \/ init
  \/ \E layer \in Layers, group \in Groups : bindLayer(layer, group)

\* selection, the surfaces of one layer group and the input they receive
NextDispatch ==
  \/ init
  \/ \E name \in ToolNames : setSelectedTool(name)
  \/ \E layer \in Layers : bindLayer(layer, "g1")
  \/ \E layer \in Layers, ev \in Events : DeliverEvent(layer, ev)
  \/ DeliverKeydown

\* selection and the input of one surface bound under any layer group
NextRoute ==
  \/ init
  \/ \E name \in ToolNames : setSelectedTool(name)
  \/ \E group \in Groups : bindLayer("L1", group)
  \/ \E ev \in Events : DeliverEvent("L1", ev)
  \/ DeliverKeydown

\* selection, the surfaces of one layer group and their pointer gestures
NextGesture ==
  \/ \E name \in ToolNames : setSelectedTool(name)
  \/ \E layer \in Layers : bindLayer(layer, "g1")
  \/ \E layer \in Layers, button \in ButtonValues, moves \in 0..MaxMoves :
       PointerGesture(layer, button, moves)

\* the entries of the store
NextStore ==
  \/ \E index \in Ids, image \in Images, meta \in RawMetas : addNew(index, image, meta)
  \/ \E index \in Ids, image \in Images : setImage(index, image)
  \/ \E index \in Ids, image \in Images, meta \in RawMetas : update(index, image, meta)
  \/ reset
  \/ \E index \in Ids : GetEntry(index)

\* the store's observers and the notifications of its images
NextNotify ==
  \/ \E index \in Ids, image \in Images, meta \in RawMetas : addNew(index, image, meta)
  \/ \E index \in Ids, image \in Images : setImage(index, image)
  \/ reset
  \/ \E t \in ObserverTypes, c \in ObserverCallbacks : addEventListener(t, c)
  \/ \E t \in ObserverTypes, c \in ObserverCallbacks : removeEventListener(t, c)
  \/ \E image \in Images : ImageChange(image)

\* every method of the store
NextData ==
  \/ \E index \in Ids, image \in Images, meta \in RawMetas : addNew(index, image, meta)
  \/ \E index \in Ids, image \in Images : setImage(index, image)
  \/ \E index \in Ids, image \in Images, meta \in RawMetas : update(index, image, meta)
  \/ reset
  \/ \E index \in Ids : GetEntry(index)
  \/ \E t \in ObserverTypes, c \in ObserverCallbacks : addEventListener(t, c)
  \/ \E t \in ObserverTypes, c \in ObserverCallbacks : removeEventListener(t, c)
  \/ \E image \in Images : ImageChange(image)

SpecData == InitStore /\ [][NextData]_vars

\* the store without reset: entries are added and changed, images notify
NextForward ==
  \/ \E index \in Ids, image \in Images, meta \in RawMetas : addNew(index, image, meta)
  \/ \E index \in Ids, image \in Images : setImage(index, image)
  \/ \E index \in Ids, image \in Images, meta \in RawMetas : update(index, image, meta)
  \/ \E t \in ObserverTypes, c \in ObserverCallbacks : addEventListener(t, c)
  \/ \E image \in Images : ImageChange(image)

SpecForward == InitStore /\ [][NextForward]_vars

SpecRoute == Init /\ [][NextRoute]_vars

SpecGesture == Init /\ [][NextGesture]_vars

SpecSelect == Init /\ [][NextSelect]_vars

SpecBind == Init /\ [][NextBind]_vars

SpecDispatch == Init /\ [][NextDispatch]_vars

SpecStore == InitStore /\ [][NextStore]_vars

SpecNotify == InitStore /\ [][NextNotify]_vars


----------------------------------------------------------------------------
(* Properties *)

\* C1: addNew on an id that is not in the store stores the entry, so that
\* get(id) returns the entry holding the image; addNew on an id that is in
\* the store throws and leaves the store as it was (entries, length and the
\* subscriptions of the images).
C1_AddNewOnceOnly ==
  [][lastCall'.op = "addNew" =>
       LET index == lastCall'.args[1]
           image == lastCall'.args[2]
       IN IF index \notin DOMAIN data
          THEN /\ ~lastCall'.threw
               /\ index \in DOMAIN data'
               /\ data'[index].image = image
               /\ length' = length + 1
               /\ \A other \in DOMAIN data : get(other)' = get(other)
          ELSE /\ lastCall'.threw
               /\ index \in DOMAIN data'
               /\ data'[index] = data[index]
               /\ length' = length
               /\ UNCHANGED dataVars]_vars

\* C1 witness: an addNew on an id already in the store has failed
C1_Witness ==
  /\ lastCall.op = "addNew"
  /\ lastCall.threw
  /\ lastCall.args[1] \in DOMAIN data
  /\ length = 2

\* C2: at most one tool is active at any instant, including the instants
\* between the external calls of one setSelectedTool, and after a call the
\* selected tool, if any, is exactly the active one.
C2_SingleActiveTool ==
  /\ [](/\ Cardinality(ActiveTools(active)) <= 1
        /\ (selectedTool # Null => ActiveTools(active) = {selectedTool}))
  /\ [][\A k \in 0..Len(lastCall'.calls) :
          Cardinality(ActiveTools(ApplyToolCalls(active, SubSeq(lastCall'.calls, 1, k)))) <= 1]_vars

\* C2 witness: a selection has moved from one tool to another, after a failed call
C2_Witness ==
  /\ lastCall.op = "setSelectedTool"
  /\ lastCall.threw
  /\ selectedTool # Null
  /\ ActiveTools(active) = {selectedTool}
  /\ Cardinality(DOMAIN toolList) = 2

\* C3: setSelectedTool(B) while A is selected calls A.activate(false) once,
\* then switches the selection to B, then calls B.activate(true) once, and
\* nothing else; the first selection only selects and activates.
C3_DeactivateThenActivate ==
  (lastCall.op = "setSelectedTool" /\ ~lastCall.threw) =>
     LET name == lastCall.args[1]
     IN /\ selectedTool = name
        /\ lastCall.calls =
             (IF lastCall.pre # Null
              THEN <<<<"activate", lastCall.pre, "false">>>> ELSE <<>>)
               \o <<<<"select", name>>, <<"activate", name, "true">>>>

\* C3 witness: B has been selected while another tool A was selected
C3_Witness ==
  /\ lastCall.op = "setSelectedTool"
  /\ ~lastCall.threw
  /\ lastCall.pre # Null
  /\ lastCall.pre # lastCall.args[1]

C5_HandlerLookupNeverThrows ==
  lastCall.op = "getSelectedToolEventHandler" =>
     /\ ~lastCall.threw
     /\ lastCall.calls =
          <<<<"return">> \o
              (IF selectedTool # Null /\ lastCall.args[1] \in toolList[selectedTool]
               THEN <<selectedTool, lastCall.args[1]>> ELSE <<>>)>>

\* C6: a secondary-button press or a move with the secondary button held,
\* delivered to a bound surface while the alternate tool is registered with
\* a handler for the kind, invokes exactly that handler, whatever the
\* selection is (a tool, the alternate tool, or none).
C6_OverrideWhateverSelection ==
  (/\ lastCall.op = "dispatch"
   /\ lastCall.args[1] \in Layers
   /\ IsOverride(lastCall.event)
   /\ AlternateTool \in DOMAIN toolList
   /\ lastCall.event.type \in toolList[AlternateTool])
    => HandlerCalls(lastCall.calls) = <<<<"handler", AlternateTool, lastCall.event.type>>>>

\* C7: delivering an event never throws; an event whose handler cannot be
\* resolved is dropped, also an override event while the alternate tool is
\* not registered.
C7_DispatchNeverThrows ==
  lastCall.op = "dispatch" =>
     /\ ~lastCall.threw
     /\ (IsOverride(lastCall.event) /\ AlternateTool \notin DOMAIN toolList
           => HandlerCalls(lastCall.calls) = <<>>)


\* C8: bindLayer(L2, g) while L1 is bound to g runs the unbind path of L1
\* once (unbindInteraction, one removeEventListener per event kind, the
\* context-menu removal) before anything is registered on L2, and the record
\* of g names the surface of the most recent bindLayer(., g); the records of
\* the other groups are kept.
C8_RebindUnbindsFirst ==
  [][lastCall'.op = "bindLayer" =>
       LET layer == lastCall'.args[1]
           group == lastCall'.args[2]
           calls == lastCall'.calls
           unbindIdx == {i \in 1..Len(calls) :
                           calls[i][1] \in {"unbindInteraction", "removeEventListener",
                                            "removeContextMenuListener"}}
           bindIdx == {i \in 1..Len(calls) :
                         calls[i][1] \in {"bindInteraction", "addEventListener",
                                          "addContextMenuListener"}}
           count(c) == Cardinality({i \in 1..Len(calls) : calls[i] = c})
       IN /\ DOMAIN boundLayers' = DOMAIN boundLayers \cup {group}
          /\ boundLayers'[group] = layer
          /\ \A g \in DOMAIN boundLayers \ {group} : boundLayers'[g] = boundLayers[g]
          /\ count(<<"bindInteraction", layer>>) = 1
          /\ \A k \in EventKinds : count(<<"addEventListener", layer, k>>) = 1
          /\ \A i \in bindIdx : calls[i][2] = layer
          /\ IF group \in DOMAIN boundLayers
             THEN LET old == boundLayers[group]
                  IN /\ count(<<"unbindInteraction", old>>) = 1
                     /\ \A k \in EventKinds : count(<<"removeEventListener", old, k>>) = 1
                     /\ \A i \in unbindIdx : calls[i][2] = old
                     /\ \A i \in unbindIdx, j \in bindIdx : i < j
                     /\ (old # layer => ~interaction'[old])
             ELSE unbindIdx = {}]_vars

\* C8 witness: a group bound to one surface has been rebound to another
C8_Witness ==
  /\ lastCall.op = "bindLayer"
  /\ lastCall.pre \in Layers
  /\ lastCall.pre # lastCall.args[1]
  /\ boundLayers[lastCall.args[2]] = lastCall.args[1]

\* C9: with every bindLayer on the same group id, the bound surface has one
\* dispatcher per event kind and every other surface has none, and an input
\* event reaches a tool handler at most once.
C9_OneListenerPerKind ==
  /\ \A l \in Layers, k \in EventKinds :
       Len(listeners[l][k]) =
         IF \E g \in DOMAIN boundLayers : boundLayers[g] = l THEN 1 ELSE 0
  /\ (lastCall.op = "dispatch" => Len(HandlerCalls(lastCall.calls)) <= 1)

\* C9 witness: the surface already bound to the group has been bound again
C9_Witness ==
  /\ lastCall.op = "bindLayer"
  /\ lastCall.pre = lastCall.args[1]
  /\ \A k \in EventKinds : Len(listeners[lastCall.args[1]][k]) = 1

\* C10: a surface holds no more context-menu suppression handlers than
\* there are groups it is bound to: none once it has been unbound, and no
\* growth over bind/unbind cycles.
C10_UnbindRestoresContextMenu ==
  \A l \in Layers :
    Cardinality(ctxMenu[l]) <= Cardinality({g \in DOMAIN boundLayers : boundLayers[g] = l})


\* C11: a dispatcher is allocated once per (surface id, event kind): an
\* entry of the cache is never removed or replaced, the number of callbacks
\* allocated is the number of entries, and every listener registered on a
\* surface is the cache's entry for that surface and kind (so the callback
\* unbind removes is the one bind added).
C11_DispatcherCreatedOnce ==
  /\ [](/\ cbCreated = Cardinality(DOMAIN callbackStore)
        /\ \A l \in Layers, k \in EventKinds :
             \A i \in 1..Len(listeners[l][k]) :
               /\ <<LayerId(l), k>> \in DOMAIN callbackStore
               /\ listeners[l][k][i] = callbackStore[<<LayerId(l), k>>]
        /\ \A cb \in windowKeydown : cb = callbackStore[<<"window", "keydown">>])
  /\ [][\A p \in DOMAIN callbackStore :
          p \in DOMAIN callbackStore' /\ callbackStore'[p] = callbackStore[p]]_vars

\* C11 witness: init has run and a surface has been unbound and bound again
C11_Witness ==
  /\ lastCall.op = "bindLayer"
  /\ lastCall.pre = lastCall.args[1]
  /\ <<"window", "keydown">> \in DOMAIN callbackStore
  /\ cbCreated = Len(InteractionEventNames) + 1


\* C12: reset() also drops the listeners tied to the entries: an
\* 'imagechange' is never forwarded with the id of an entry that reset() has
\* removed.
C12_ResetDropsImageListeners ==
  lastCall.op = "imagechange" =>
     \A i \in 1..Len(lastCall.calls) : lastCall.calls[i][5] \in DOMAIN data

\* C13: the stored ids change only by reset(), which empties the store, and
\* by a successful addNew, which adds its id; every other call (setImage,
\* update, get, a failed addNew, listener registration, a notification)
\* keeps the ids and the length.
C13_LengthCountsAddedIds ==
  [][/\ (lastCall'.op = "reset" =>
           length' = 0 /\ \A id \in Ids : get(id)' = <<>>)
     /\ (lastCall'.op = "addNew" /\ ~lastCall'.threw =>
           /\ lastCall'.args[1] \notin DOMAIN data
           /\ DOMAIN data' = DOMAIN data \cup {lastCall'.args[1]}
           /\ length' = length + 1)
     /\ (lastCall'.op # "reset" /\ ~(lastCall'.op = "addNew" /\ ~lastCall'.threw) =>
           DOMAIN data' = DOMAIN data /\ length' = length)]_vars

\* C13 witness: reset() has emptied a store that held two entries
C13_Witness ==
  /\ lastCall.op = "reset"
  /\ TotalSubs = 2
  /\ imgListeners["img1"] # imgListeners["img2"]
  /\ length = 0

\* C14: setImage on an existing entry replaces the image, keeps the meta
\* data and the other entries, and notifies every 'imageset' observer once,
\* with the image as value and the id as dataid, after the replacement (the
\* observer reads the new image from the store).
C14_SetImageThenImageSet ==
  [][(lastCall'.op = "setImage" /\ lastCall'.args[1] \in DOMAIN data) =>
       LET index == lastCall'.args[1]
           image == lastCall'.args[2]
           fired == SelectSeq(lastCall'.calls, LAMBDA c : c[1] = "observer")
       IN /\ ~lastCall'.threw
          /\ DOMAIN data' = DOMAIN data
          /\ data'[index] = [image |-> image, meta |-> data[index].meta]
          /\ \A other \in DOMAIN data \ {index} : data'[other] = data[other]
          /\ fired = [i \in 1..Len(observers["imageset"]) |->
                        <<"observer", observers["imageset"][i], "imageset",
                          image, index, image>>]
          /\ lastCall'.calls = fired \o <<<<"addEventListener", image, index>>>>]_vars

\* C14 witness: an observed setImage has replaced an image by another one
C14_Witness ==
  /\ lastCall.op = "setImage"
  /\ ~lastCall.threw
  /\ lastCall.pre # lastCall.args[2]
  /\ Len(lastCall.calls) = 2

\* C15: setImage and update on an id that is not in the store throw and
\* change nothing: no entry, no event, no subscription, no slice.
C15_MissingEntryChangesNothing ==
  [][(lastCall'.op \in {"setImage", "update"} /\ lastCall'.args[1] \notin DOMAIN data) =>
       /\ lastCall'.threw
       /\ lastCall'.calls = <<>>
       /\ lastCall'.args[1] \notin DOMAIN data'
       /\ length' = length
       /\ UNCHANGED dataVars]_vars

\* C15 witness: setImage has failed on a missing id next to an existing entry
C15_Witness ==
  /\ lastCall.op = "setImage"
  /\ lastCall.threw
  /\ lastCall.args[1] \notin DOMAIN data
  /\ length = 1

\* C16: update on an existing entry appends the image once to the stored
\* image, keeps the stored image reference, and merges the normalized meta
\* data with the id key 'InstanceNumber' if the raw meta data has the
\* transfer syntax (x00020010) and 'imageUid' otherwise, whatever the shape
\* of the stored meta data.
C16_UpdateAppendsAndMerges ==
  [][(lastCall'.op = "update" /\ lastCall'.args[1] \in DOMAIN data) =>
       LET index == lastCall'.args[1]
           image == lastCall'.args[2]
           meta == lastCall'.args[3]
           target == data[index].image
           key == IF "x00020010" \in DOMAIN meta THEN "InstanceNumber" ELSE "imageUid"
       IN /\ ~lastCall'.threw
          /\ lastCall'.calls = <<<<"appendSlice", target, image>>, <<"mergeObjects", key>>>>
          /\ data'[index].image = target
          /\ slices' = [slices EXCEPT ![target] = @ + 1]
          /\ data'[index].meta = mergeObjects(data[index].meta, getMetaObject(meta), key)
          /\ \A other \in DOMAIN data \ {index} : data'[other] = data[other]]_vars

\* C16 witness: DICOM meta data has been merged into an entry of a DOM image
C16_Witness ==
  /\ lastCall.op = "update"
  /\ ~lastCall.threw
  /\ "x00020010" \in DOMAIN lastCall.args[3]
  /\ "imageUid" \in DOMAIN data[lastCall.args[1]].meta

\* C19: an 'imagechange' of image m is forwarded with dataid = id once to
\* every observer if m is the image stored in entry id, and not at all
\* otherwise.
C19_ForwardOnceForOwner ==
  lastCall.op = "imagechange" =>
     \A id \in Ids :
       Cardinality({i \in 1..Len(lastCall.calls) : lastCall.calls[i][5] = id}) =
         IF id \in DOMAIN data /\ data[id].image = lastCall.args[1]
         THEN Len(observers["imagechange"]) ELSE 0


C20_RecordAgreesWithListeners ==
  \A l \in Layers :
    LET recorded == \E g \in Groups : HasBoundLayer(g) /\ boundLayers[g] = l
    IN \A i \in 1..Len(InteractionEventNames) :
         (recorded <=> Len(listeners[l][InteractionEventNames[i]]) = 1)
           /\ (~recorded <=> listeners[l][InteractionEventNames[i]] = <<>>)


\* C18: within one pointer gesture the release is handled by the tool that
\* handled the press, also when the gesture is made with the secondary button
\* while a tool other than the alternate tool is selected.
C18_ReleaseGoesToPressTool ==
  lastCall.op = "gesture" =>
     LET handled == HandlerCalls(lastCall.calls)
     IN \A i, j \in 1..Len(handled) :
          (handled[i][3] = "mousedown" /\ handled[j][3] = "mouseup")
             => handled[i][2] = handled[j][2]

====
